---- MODULE Spec2Model ----
(***************************************************************************)
(* Model of the weather aggregator (aggregator/aggregator.go): provider    *)
(* registration, the GetWeather fan-out over the registered providers,     *)
(* the statistical reducer and the TTL cache guarded by an RWMutex.        *)
(*                                                                         *)
(* Error texts of the Go source are Russian; the model carries ASCII       *)
(* renderings of them, one per distinct message of the source.             *)
(***************************************************************************)
EXTENDS Integers, Sequences, FiniteSets, Bags, TLC

(***************************************************************************)
(* Bounds of the model.                                                    *)
(***************************************************************************)
\* last instant of the clock (minutes)
MaxTime == 2
\* the cacheDurationMinutes handed to NewAggregator
CacheDurationMinutes == 1
\* number of GetWeather calls started in a behaviour
MaxRequests == 2
\* number of AddProvider calls made in a behaviour of SpecRegistry
MaxAdds == 3
\* length of the slices handed to the reducer functions in SpecReducer
MaxLen == 3

\* the goroutines that call GetWeather (request handlers)
Callers == {"h1", "h2"}
\* the handler that serves the requests of Spec, one after the other
Sequential == {"h1"}

(***************************************************************************)
(* Values.                                                                 *)
(***************************************************************************)
\* a nil error
Nil == "nil"
\* a nil pointer (*models.WeatherData, *models.AggregatedWeather)
NilPtr == [ptr |-> "nil"]

\* time.Minute, in clock units
Minute == 1

\* significand width of the floating-point format (float64 scaled down)
MantBits == 3

RECURSIVE Pow2(_)
Pow2(n) == IF n = 0 THEN 1 ELSE 2 * Pow2(n - 1)

Abs(x) == IF x < 0 THEN -x ELSE x

\* exponent of the binade holding a/q: the least k with a < q * 2^(MantBits+k)
RECURSIVE Binade(_, _, _)
Binade(a, q, k) == IF a < q * Pow2(MantBits + k) THEN k ELSE Binade(a, q, k + 1)

\* p/q (q > 0) rounded to the nearest representable value, ties to even:
\* what every float64 operation does to its exact result
RoundQ(p, q) ==
    LET a == Abs(p)
        k == Binade(a, q, 0)
        d == q * Pow2(k)
        m == a \div d
        r == a % d
        up == (2 * r > d) \/ (2 * r = d /\ m % 2 = 1)
        mm == IF up THEN m + 1 ELSE m
    IN  (IF p < 0 THEN -1 ELSE 1) * mm * Pow2(k)

\* float64 addition and division
FAdd(x, y) == RoundQ(x + y, 1)
FDiv(x, n) == RoundQ(x, n)
\* the conversion float64(i) of an int
Float64(i) == RoundQ(i, 1)

\* math.MaxFloat64: the largest finite value of the format
MaxFloat64 == (Pow2(MantBits) - 1) * Pow2(6)

(***************************************************************************)
(* Providers (providers/*.go behind the Provider interface).               *)
(***************************************************************************)
\* the provider objects the program hands to AddProvider: an adapter of the
\* repository with a key, one without a key, and one further implementation
\* of the Provider interface
ProviderPool == {"owm", "owm_nokey", "other"}

apiKey(p) == IF p = "owm_nokey" THEN "" ELSE "key"

Name(p) ==
    CASE p = "owm" -> "OpenWeatherMap"
      [] p = "owm_nokey" -> "OpenWeatherMap"
      [] OTHER -> "Other"

IsAvailable(p) == apiKey(p) # ""

\* the WeatherData a provider builds from its upstream's answer; the fields
\* the aggregator reads
Reading(p) ==
    CASE p = "other" ->
           [Provider |-> Name(p), Temperature |-> 6, FeelsLike |-> -2,
            Humidity |-> 4, Pressure |-> 5, WindSpeed |-> 0, Description |-> "sun"]
      [] OTHER ->
           [Provider |-> Name(p), Temperature |-> 6, FeelsLike |-> 5,
            Humidity |-> 6, Pressure |-> 7, WindSpeed |-> 3, Description |-> "rain"]

\* ctx.Err() of a context that is done
CtxErr == "context canceled"
\* "gorod ne najden": the upstream does not know the city
ErrCityNotFound == "city not found"
\* "oshibka HTTP zaprosa: %w" around the context's error
ErrHTTPRequest == "http request failed: " \o CtxErr

\* what p.GetWeather(ctx, city, country) can return: (weather, err).
\* An adapter of the repository returns a reading or an error, and the HTTP
\* error once the context is done; the interface also admits (nil, nil).
ProviderGetWeather(p, ctxDone) ==
    {[weather |-> Reading(p), err |-> Nil], [weather |-> NilPtr, err |-> ErrCityNotFound]}
    \cup (IF ctxDone THEN {[weather |-> NilPtr, err |-> ErrHTTPRequest]} ELSE {})
    \cup (IF p = "other" THEN {[weather |-> NilPtr, err |-> Nil]} ELSE {})

(***************************************************************************)
(* Statistical reducer.                                                    *)
(***************************************************************************)
\* the zero value of models.AggregatedValue
ZeroAggregatedValue == [Average |-> 0, Min |-> 0, Max |-> 0, Values |-> <<>>]

\* the loop of aggregateValues over values[i..]: running sum, min and max
RECURSIVE aggregateLoop(_, _, _, _, _)
aggregateLoop(values, i, sum, min, max) ==
    IF i > Len(values) THEN [sum |-> sum, min |-> min, max |-> max]
    ELSE LET v == values[i]
         IN  aggregateLoop(values, i + 1, FAdd(sum, v),
                           IF v < min THEN v ELSE min,
                           IF v > max THEN v ELSE max)

\* aggregateValues without the test for an empty slice (0/0 left as 0)
aggregateValuesNoEmptyTest(values) ==
    LET l == aggregateLoop(values, 1, 0, MaxFloat64, -MaxFloat64)
    IN  [Average |-> IF Len(values) = 0 THEN 0 ELSE FDiv(l.sum, Len(values)),
         Min |-> l.min, Max |-> l.max, Values |-> values]

aggregateValues(values) ==
    IF Len(values) = 0 THEN ZeroAggregatedValue
    ELSE LET l == aggregateLoop(values, 1, 0, MaxFloat64, -MaxFloat64)
         IN  [Average |-> FDiv(l.sum, Len(values)), Min |-> l.min, Max |-> l.max,
              Values |-> values]

\* freq[v] of mostFrequent: the number of occurrences of v in values
Freq(values, v) == Cardinality({i \in 1..Len(values) : values[i] = v})

\* the orders in which a range over a map with the keys S can visit them
Orders(S) ==
    {o \in [1..Cardinality(S) -> S] : \A k \in S : \E i \in 1..Cardinality(S) : o[i] = k}

\* the second loop of mostFrequent that never raises maxFreq
RECURSIVE mostFrequentLoopNoRaise(_, _, _, _, _)
mostFrequentLoopNoRaise(values, order, i, maxFreq, result) ==
    IF i > Len(order) THEN result
    ELSE IF Freq(values, order[i]) > maxFreq
         THEN mostFrequentLoopNoRaise(values, order, i + 1, maxFreq, order[i])
         ELSE mostFrequentLoopNoRaise(values, order, i + 1, maxFreq, result)

\* the second loop of mostFrequent over the keys order[i..]: a key of a
\* higher count than any met before replaces the result
RECURSIVE mostFrequentLoop(_, _, _, _, _)
mostFrequentLoop(values, order, i, maxFreq, result) ==
    IF i > Len(order) THEN result
    ELSE IF Freq(values, order[i]) > maxFreq
         THEN mostFrequentLoop(values, order, i + 1, Freq(values, order[i]), order[i])
         ELSE mostFrequentLoop(values, order, i + 1, maxFreq, result)

\* the results mostFrequent can return: the map is ranged over in an
\* unspecified order, so one result per order of its keys
mostFrequent(values) ==
    {mostFrequentLoop(values, o, 1, 0, "") :
        o \in Orders({values[i] : i \in 1..Len(values)})}

\* the aggregates aggregateWeather(data, city, country) can build when the
\* clock reads t (one per result of mostFrequent); data holds no nil
aggregateWeather(data, city, country, t) ==
    LET temps == [i \in 1..Len(data) |-> data[i].Temperature]
        feelsLike == [i \in 1..Len(data) |-> data[i].FeelsLike]
        humidity == [i \in 1..Len(data) |-> Float64(data[i].Humidity)]
        pressure == [i \in 1..Len(data) |-> Float64(data[i].Pressure)]
        windSpeed == [i \in 1..Len(data) |-> data[i].WindSpeed]
        descriptions == [i \in 1..Len(data) |-> data[i].Description]
    IN  {[Location |-> city \o ", " \o country,
          LastUpdated |-> t,
          Providers |-> [i \in 1..Len(data) |-> data[i].Provider],
          Temperature |-> aggregateValues(temps),
          FeelsLike |-> aggregateValues(feelsLike),
          Humidity |-> aggregateValues(humidity),
          Pressure |-> aggregateValues(pressure),
          WindSpeed |-> aggregateValues(windSpeed),
          Description |-> d] : d \in mostFrequent(descriptions)}

(***************************************************************************)
(* State.                                                                  *)
(***************************************************************************)
VARIABLES
    providers,    \* Aggregator.providers: the registered providers, in order
    cache,        \* Aggregator.cache: key -> cacheEntry {data, timestamp}
    cacheMu,      \* Aggregator.cacheMu: who holds the RWMutex
    now,          \* the clock time.Now() and time.Since() read
    pc,           \* per caller: where its GetWeather call stands
    req,          \* per caller: the city and country of its call
    ctx,          \* per caller: its context, "live" or "done"
    workers,      \* per caller: the goroutines of the fan-out, one per provider
    results,      \* per caller: the results channel
    errors,       \* per caller: the errors channel
    weatherData,  \* per caller: the readings drained from results
    errs,         \* per caller: the messages drained from errors
    aggregated,   \* per caller: the aggregate built by aggregateWeather
    ret,          \* per caller: what GetWeather returned, (value, error)
    invoked,      \* per caller and worker: the provider calls made, with arguments
    clr,          \* where the ClearCache call stands
    lastCleared,  \* the keys the last ClearCache discarded
    nreq,         \* GetWeather calls started so far
    added,        \* the providers handed to AddProvider so far, in call order
    count,        \* what the last GetProviderCount call returned
    info,         \* what the last GetProvidersInfo call returned
    arg,          \* the argument handed to a reducer function
    out           \* what the reducer function returned for arg

vars == <<providers, cache, cacheMu, now, pc, req, ctx, workers, results, errors,
          weatherData, errs, aggregated, ret, invoked, clr, lastCleared, nreq,
          added, count, info, arg, out>>

callVars == <<pc, req, ctx, workers, results, errors, weatherData, errs,
              aggregated, ret, invoked>>

\* the registry's call history and the introspection calls' returns
regVars == <<added, count, info>>

\* the reducer functions' argument and return
pureVars == <<arg, out>>

\* the (city, country) pairs the callers ask for
Requests == {<<"Washington", "DC,US">>, <<"Paris", "FR">>}

\* cacheKey := fmt.Sprintf("%s,%s", city, country)
CacheKey(city, country) == city \o "," \o country

\* NewAggregator: cacheTTL = cacheDurationMinutes * time.Minute
cacheTTL == CacheDurationMinutes * Minute

NoReturn == [val |-> NilPtr, err |-> Nil]

\* no call of an introspection method or of a reducer function made yet
NoCall == [fn |-> "none"]

\* "net dostupnyh provajderov"
ErrNoProviders == "no providers available"
\* "ne udalos' poluchit' dannye ot provajderov"
ErrNoData == "could not get data from providers"

\* fmt's %v of a []string: the elements separated by one space, in brackets
RECURSIVE JoinStrings(_)
JoinStrings(s) ==
    IF Len(s) = 0 THEN ""
    ELSE IF Len(s) = 1 THEN s[1]
    ELSE s[1] \o " " \o JoinStrings(Tail(s))

\* "vse provajdery vernuli oshibki: %v"
ErrAllFailed(es) == "all providers returned errors: [" \o JoinStrings(es) \o "]"

\* a worker goroutine before it ran
FreshWorker == [st |-> "ready", skipped |-> FALSE, weather |-> NilPtr, err |-> Nil]

\* the state NewAggregator leaves, no call made yet
InitAggregator ==
    /\ providers = <<>>
    /\ cache = <<>>
    /\ cacheMu = [readers |-> {}, writer |-> Nil]
    /\ now = 0
    /\ pc = [c \in Callers |-> "idle"]
    /\ req = [c \in Callers |-> [city |-> "", country |-> ""]]
    /\ ctx = [c \in Callers |-> "live"]
    /\ workers = [c \in Callers |-> <<>>]
    /\ results = [c \in Callers |-> <<>>]
    /\ errors = [c \in Callers |-> <<>>]
    /\ weatherData = [c \in Callers |-> <<>>]
    /\ errs = [c \in Callers |-> <<>>]
    /\ aggregated = [c \in Callers |-> NilPtr]
    /\ ret = [c \in Callers |-> NoReturn]
    /\ invoked = [c \in Callers |-> <<>>]
    /\ clr = "idle"
    /\ lastCleared = {}
    /\ nreq = 0
    /\ added = <<>>
    /\ count = NoCall
    /\ info = NoCall

Init ==
    /\ InitAggregator
    /\ arg = NoCall
    /\ out = NoCall

(***************************************************************************)
(* Registration.                                                           *)
(***************************************************************************)
\* AddProvider that appends without asking IsAvailable
AddProviderUnchecked(p) ==
    /\ providers' = Append(providers, p)
    /\ added' = Append(added, p)
    /\ UNCHANGED <<cache, cacheMu, now, callVars, clr, lastCleared, nreq, count, info,
                   pureVars>>

\* AddProvider(provider): appended when it reports itself available
AddProvider(p) ==
    /\ providers' = IF IsAvailable(p) THEN Append(providers, p) ELSE providers
    /\ added' = Append(added, p)
    /\ UNCHANGED <<cache, cacheMu, now, callVars, clr, lastCleared, nreq, count, info,
                   pureVars>>

\* the position of an adapter in main's registration order
StartupRank(p) ==
    CASE p = "owm_nokey" -> 1 [] p = "owm" -> 2 [] OTHER -> 3

\* main registers the adapters once, before any request is served, in a fixed
\* order, each at most once and only when its key is configured
Startup(p) ==
    /\ nreq = 0
    /\ apiKey(p) # ""
    /\ \A i \in 1..Len(added) : StartupRank(added[i]) < StartupRank(p)
    /\ AddProvider(p)

\* GetProviderCount(): len(a.providers)
GetProviderCount ==
    /\ count' = [fn |-> "GetProviderCount", val |-> Len(providers)]
    /\ UNCHANGED <<providers, cache, cacheMu, now, callVars, clr, lastCleared, nreq,
                   added, info, pureVars>>

\* GetProvidersInfo(): info[i] = provider.Name() for every registered provider
GetProvidersInfo ==
    /\ info' = [fn |-> "GetProvidersInfo",
                val |-> [i \in 1..Len(providers) |-> Name(providers[i])]]
    /\ UNCHANGED <<providers, cache, cacheMu, now, callVars, clr, lastCleared, nreq,
                   added, count, pureVars>>

(***************************************************************************)
(* The cache.                                                              *)
(***************************************************************************)
\* getFromCache with the TTL test written >=: an entry aged exactly the TTL is stale
getFromCacheStrict(key, t) ==
    IF key \notin DOMAIN cache THEN [data |-> NilPtr, found |-> FALSE]
    ELSE IF t - cache[key].timestamp >= cacheTTL THEN [data |-> NilPtr, found |-> FALSE]
    ELSE [data |-> cache[key].data, found |-> TRUE]

\* getFromCache without the TTL test: every stored entry is served
getFromCacheNoTTL(key, t) ==
    IF key \notin DOMAIN cache THEN [data |-> NilPtr, found |-> FALSE]
    ELSE [data |-> cache[key].data, found |-> TRUE]

\* the body of getFromCache under the read lock: (data, found)
getFromCache(key, t) ==
    IF key \notin DOMAIN cache THEN [data |-> NilPtr, found |-> FALSE]
    ELSE IF t - cache[key].timestamp > cacheTTL THEN [data |-> NilPtr, found |-> FALSE]
    ELSE [data |-> cache[key].data, found |-> TRUE]

\* saveToCache that rebuilds the map around the new entry, dropping the others
saveToCacheAlone(key, data, t) ==
    [k \in {key} |-> [data |-> data, timestamp |-> t]]

\* the body of saveToCache under the write lock: the map after the assignment
saveToCache(key, data, t) ==
    [k \in DOMAIN cache \cup {key} |->
        IF k = key THEN [data |-> data, timestamp |-> t] ELSE cache[k]]

\* ClearCache that deletes the entries one key at a time and stops after the first
clearedCachePartial ==
    IF DOMAIN cache = {} THEN <<>>
    ELSE LET gone == CHOOSE k \in DOMAIN cache : TRUE
         IN  [k \in DOMAIN cache \ {gone} |-> cache[k]]

\* the body of ClearCache under the write lock: a fresh map
clearedCache == <<>>

\* RLock() succeeds: no writer holds the mutex
RLockFree == cacheMu.writer = Nil

\* a Lock() that does not wait for the readers inside
LockFreeOfWriters == cacheMu.writer = Nil

\* Lock() succeeds: neither a writer nor a reader holds the mutex
LockFree == cacheMu.writer = Nil /\ cacheMu.readers = {}

ClearLock ==
    /\ clr = "idle"
    /\ LockFree
    /\ cacheMu' = [cacheMu EXCEPT !.writer = "clear"]
    /\ clr' = "locked"
    /\ UNCHANGED <<providers, cache, now, callVars, lastCleared, nreq>>
    /\ UNCHANGED <<regVars, pureVars>>

ClearWrite ==
    /\ clr = "locked"
    /\ cache' = clearedCache
    /\ lastCleared' = DOMAIN cache \ DOMAIN cache'
    /\ cacheMu' = [cacheMu EXCEPT !.writer = Nil]
    /\ clr' = "idle"
    /\ UNCHANGED <<providers, now, callVars, nreq>>
    /\ UNCHANGED <<regVars, pureVars>>

\* a caller is about to read the clock: time.Since in getFromCache, time.Now
\* in aggregateWeather and in saveToCache
ClockRead ==
    \E c \in Callers :
        \/ pc[c] \in {"rlocked", "saving"}
        \/ pc[c] = "waiting" /\ \A i \in 1..Len(workers[c]) : workers[c][i].st = "done"

\* time passes; only the instants at which the clock is read matter, so the
\* clock moves (by any amount, one unit a step) right before a read
Tick ==
    /\ now < MaxTime
    /\ ClockRead
    /\ now' = now + 1
    /\ UNCHANGED <<providers, cache, cacheMu, callVars, clr, lastCleared, nreq>>
    /\ UNCHANGED <<regVars, pureVars>>

(***************************************************************************)
(* GetWeather.                                                             *)
(***************************************************************************)
\* the caller enters GetWeather(ctx, city, country): the key is formed and
\* getFromCache takes the read lock; what the caller's earlier calls returned
\* is behind it
CallGetWeather(c, city, country, ctxState) ==
    /\ pc[c] \in {"idle", "done", "panicked"}
    /\ nreq < MaxRequests
    /\ RLockFree
    /\ nreq' = nreq + 1
    /\ cacheMu' = [cacheMu EXCEPT !.readers = @ \cup {c}]
    /\ pc' = [pc EXCEPT ![c] = "rlocked"]
    /\ req' = [req EXCEPT ![c] = [city |-> city, country |-> country]]
    /\ ctx' = [ctx EXCEPT ![c] = ctxState]
    /\ workers' = [workers EXCEPT ![c] = <<>>]
    /\ results' = [results EXCEPT ![c] = <<>>]
    /\ errors' = [errors EXCEPT ![c] = <<>>]
    /\ weatherData' = [weatherData EXCEPT ![c] = <<>>]
    /\ errs' = [errs EXCEPT ![c] = <<>>]
    /\ aggregated' = [aggregated EXCEPT ![c] = NilPtr]
    /\ ret' = [ret EXCEPT ![c] = NoReturn]
    /\ invoked' = [invoked EXCEPT ![c] = <<>>]
    /\ count' = NoCall
    /\ info' = NoCall
    /\ UNCHANGED <<providers, cache, now, clr, lastCleared, added, pureVars>>

\* GetWeather without the test for an empty provider list
NoProvidersUnchecked == FALSE

\* len(a.providers) == 0
NoProviders == Len(providers) = 0

\* the goroutines the dispatch loop launches: one per registered provider
LaunchWorkers == [i \in 1..Len(providers) |-> FreshWorker]

\* a lookup that deletes the entry it finds stale
LookupCacheEvicting(c) ==
    /\ pc[c] = "rlocked"
    /\ cacheMu' = [cacheMu EXCEPT !.readers = @ \ {c}]
    /\ LET r == getFromCache(CacheKey(req[c].city, req[c].country), now)
       IN  IF r.found
           THEN /\ ret' = [ret EXCEPT ![c] = [val |-> r.data, err |-> Nil]]
                /\ pc' = [pc EXCEPT ![c] = "done"]
                /\ ctx' = [ctx EXCEPT ![c] = "live"]
                /\ UNCHANGED <<workers, invoked>>
           ELSE IF NoProviders
           THEN /\ ret' = [ret EXCEPT ![c] = [val |-> NilPtr, err |-> ErrNoProviders]]
                /\ pc' = [pc EXCEPT ![c] = "done"]
                /\ ctx' = [ctx EXCEPT ![c] = "live"]
                /\ UNCHANGED <<workers, invoked>>
           ELSE /\ workers' = [workers EXCEPT ![c] = LaunchWorkers]
                /\ invoked' = [invoked EXCEPT ![c] = [i \in 1..Len(providers) |-> <<>>]]
                /\ pc' = [pc EXCEPT ![c] = "waiting"]
                /\ UNCHANGED <<ret, ctx>>
    /\ cache' = LET k == CacheKey(req[c].city, req[c].country)
                IN  IF k \in DOMAIN cache /\ ~getFromCache(k, now).found
                    THEN [j \in DOMAIN cache \ {k} |-> cache[j]]
                    ELSE cache
    /\ UNCHANGED <<providers, now, req, results, errors, weatherData,
                   errs, aggregated, clr, lastCleared, nreq>>
    /\ UNCHANGED <<regVars, pureVars>>

\* getFromCache returns and releases the read lock; on a hit GetWeather
\* returns the cached aggregate, without providers it returns the error,
\* otherwise it makes the channels and launches the workers
LookupCache(c) ==
    /\ pc[c] = "rlocked"
    /\ cacheMu' = [cacheMu EXCEPT !.readers = @ \ {c}]
    /\ LET r == getFromCache(CacheKey(req[c].city, req[c].country), now)
       IN  IF r.found
           THEN /\ ret' = [ret EXCEPT ![c] = [val |-> r.data, err |-> Nil]]
                /\ pc' = [pc EXCEPT ![c] = "done"]
                /\ ctx' = [ctx EXCEPT ![c] = "live"]
                /\ UNCHANGED <<workers, invoked>>
           ELSE IF NoProviders
           THEN /\ ret' = [ret EXCEPT ![c] = [val |-> NilPtr, err |-> ErrNoProviders]]
                /\ pc' = [pc EXCEPT ![c] = "done"]
                /\ ctx' = [ctx EXCEPT ![c] = "live"]
                /\ UNCHANGED <<workers, invoked>>
           ELSE /\ workers' = [workers EXCEPT ![c] = LaunchWorkers]
                /\ invoked' = [invoked EXCEPT ![c] = [i \in 1..Len(providers) |-> <<>>]]
                /\ pc' = [pc EXCEPT ![c] = "waiting"]
                /\ UNCHANGED <<ret, ctx>>
    /\ UNCHANGED <<providers, cache, now, req, results, errors, weatherData,
                   errs, aggregated, clr, lastCleared, nreq>>
    /\ UNCHANGED <<regVars, pureVars>>

\* the caller's context is cancelled or its deadline passes
Cancel(c) ==
    /\ pc[c] = "waiting"
    /\ \E i \in 1..Len(workers[c]) : workers[c][i].st # "done"
    /\ ctx[c] = "live"
    /\ ctx' = [ctx EXCEPT ![c] = "done"]
    /\ UNCHANGED <<providers, cache, cacheMu, now, pc, req, workers, results, errors,
                   weatherData, errs, aggregated, ret, invoked, clr, lastCleared, nreq>>
    /\ UNCHANGED <<regVars, pureVars>>

\* the message a worker sends when the context is done at its select
CancelMessage(p) == CtxErr

\* fmt.Errorf("%s: %w", p.Name(), err)
ProviderMessage(p, err) == Name(p) \o ": " \o err

\* the provider called with country and city exchanged
CallArgsSwapped(c, i) ==
    [provider |-> providers[i], ctx |-> c, city |-> req[c].country, country |-> req[c].city]

\* the arguments worker i of caller c hands to p.GetWeather
CallArgs(c, i) ==
    [provider |-> providers[i], ctx |-> c, city |-> req[c].city, country |-> req[c].country]

\* a worker that ends on a done context without sending to the errors channel
WorkerSelectNoSend(c, i) ==
    /\ pc[c] = "waiting"
    /\ i \in 1..Len(workers[c])
    /\ workers[c][i].st = "ready"
    /\ IF ctx[c] = "done"
       THEN /\ workers' = [workers EXCEPT ![c][i] = [@ EXCEPT !.st = "done", !.skipped = TRUE]]
            /\ UNCHANGED <<invoked, errors>>
       ELSE /\ workers' = [workers EXCEPT ![c][i] = [@ EXCEPT !.st = "calling"]]
            /\ invoked' = [invoked EXCEPT ![c][i] = Append(@, CallArgs(c, i))]
            /\ UNCHANGED errors
    /\ UNCHANGED <<providers, cache, cacheMu, now, pc, req, ctx, results, weatherData,
                   errs, aggregated, ret, clr, lastCleared, nreq>>
    /\ UNCHANGED <<regVars, pureVars>>

\* the select of worker i: with the context done it sends ctx.Err() and ends,
\* otherwise it calls the provider
WorkerSelect(c, i) ==
    /\ pc[c] = "waiting"
    /\ i \in 1..Len(workers[c])
    /\ workers[c][i].st = "ready"
    /\ IF ctx[c] = "done"
       THEN /\ errors' = [errors EXCEPT ![c] = Append(@, CancelMessage(providers[i]))]
            /\ workers' = [workers EXCEPT ![c][i] = [@ EXCEPT !.st = "done", !.skipped = TRUE]]
            /\ UNCHANGED invoked
       ELSE /\ workers' = [workers EXCEPT ![c][i] = [@ EXCEPT !.st = "calling"]]
            /\ invoked' = [invoked EXCEPT ![c][i] = Append(@, CallArgs(c, i))]
            /\ UNCHANGED errors
    /\ UNCHANGED <<providers, cache, cacheMu, now, pc, req, ctx, results, weatherData,
                   errs, aggregated, ret, clr, lastCleared, nreq>>
    /\ UNCHANGED <<regVars, pureVars>>

\* a worker whose failing provider call ends it without wg.Done(): the error
\* is sent, the WaitGroup never gets to zero
WorkerReturnNoDone(c, i, o) ==
    /\ pc[c] = "waiting"
    /\ i \in 1..Len(workers[c])
    /\ workers[c][i].st = "calling"
    /\ o \in ProviderGetWeather(providers[i], ctx[c] = "done")
    /\ workers' = [workers EXCEPT ![c][i] =
                      [@ EXCEPT !.st = IF o.err # Nil THEN "leaked" ELSE "done",
                                !.weather = o.weather, !.err = o.err]]
    /\ IF o.err # Nil
       THEN /\ errors' = [errors EXCEPT ![c] = Append(@, ProviderMessage(providers[i], o.err))]
            /\ UNCHANGED results
       ELSE /\ results' = [results EXCEPT ![c] = Append(@, o.weather)]
            /\ UNCHANGED errors
    /\ UNCHANGED <<providers, cache, cacheMu, now, pc, req, ctx, weatherData, errs,
                   aggregated, ret, invoked, clr, lastCleared, nreq>>
    /\ UNCHANGED <<regVars, pureVars>>

\* the provider's call returns o = (weather, err); the worker sends the tagged
\* error or the reading, and ends
WorkerReturn(c, i, o) ==
    /\ pc[c] = "waiting"
    /\ i \in 1..Len(workers[c])
    /\ workers[c][i].st = "calling"
    /\ o \in ProviderGetWeather(providers[i], ctx[c] = "done")
    /\ workers' = [workers EXCEPT ![c][i] =
                      [@ EXCEPT !.st = "done", !.weather = o.weather, !.err = o.err]]
    /\ IF o.err # Nil
       THEN /\ errors' = [errors EXCEPT ![c] = Append(@, ProviderMessage(providers[i], o.err))]
            /\ UNCHANGED results
       ELSE /\ results' = [results EXCEPT ![c] = Append(@, o.weather)]
            /\ UNCHANGED errors
    /\ UNCHANGED <<providers, cache, cacheMu, now, pc, req, ctx, weatherData, errs,
                   aggregated, ret, invoked, clr, lastCleared, nreq>>
    /\ UNCHANGED <<regVars, pureVars>>

\* a barrier that opens as soon as one worker has ended
AnyWorkerDone(c) == \E i \in 1..Len(workers[c]) : workers[c][i].st = "done"

\* wg.Wait() returns: every worker has ended
AllWorkersDone(c) == \A i \in 1..Len(workers[c]) : workers[c][i].st = "done"

\* aggregateWeather dereferences every element of data
HasNil(data) == \E i \in 1..Len(data) : data[i] = NilPtr

\* a drain that, when no reading came, also drops the key's cache entry
CollectInvalidating(c) ==
    /\ pc[c] = "waiting"
    /\ AllWorkersDone(c)
    /\ results' = [results EXCEPT ![c] = <<>>]
    /\ errors' = [errors EXCEPT ![c] = <<>>]
    /\ errs' = [errs EXCEPT ![c] = errors[c]]
    /\ IF Len(results[c]) = 0
       THEN /\ ret' = [ret EXCEPT ![c] =
                          [val |-> NilPtr,
                           err |-> IF Len(errors[c]) > 0 THEN ErrAllFailed(errors[c])
                                   ELSE ErrNoData]]
            /\ pc' = [pc EXCEPT ![c] = "done"]
            /\ weatherData' = [weatherData EXCEPT ![c] = <<>>]
            /\ workers' = [workers EXCEPT ![c] = <<>>]
            /\ invoked' = [invoked EXCEPT ![c] = <<>>]
            /\ ctx' = [ctx EXCEPT ![c] = "live"]
            /\ UNCHANGED aggregated
       ELSE IF HasNil(results[c])
       THEN /\ pc' = [pc EXCEPT ![c] = "panicked"]
            /\ weatherData' = [weatherData EXCEPT ![c] = <<>>]
            /\ workers' = [workers EXCEPT ![c] = <<>>]
            /\ invoked' = [invoked EXCEPT ![c] = <<>>]
            /\ ctx' = [ctx EXCEPT ![c] = "live"]
            /\ UNCHANGED <<ret, aggregated>>
       ELSE /\ \E a \in aggregateWeather(results[c], req[c].city, req[c].country, now) :
                   aggregated' = [aggregated EXCEPT ![c] = a]
            /\ weatherData' = [weatherData EXCEPT ![c] = results[c]]
            /\ pc' = [pc EXCEPT ![c] = "aggregated"]
            /\ UNCHANGED <<ret, workers, invoked, ctx>>
    /\ cache' = LET k == CacheKey(req[c].city, req[c].country)
                IN  IF Len(results[c]) = 0
                    THEN [j \in DOMAIN cache \ {k} |-> cache[j]]
                    ELSE cache
    /\ UNCHANGED <<providers, cacheMu, now, req, clr, lastCleared, nreq>>
    /\ UNCHANGED <<regVars, pureVars>>

\* after the barrier: the channels are closed and drained, then GetWeather
\* returns an error, or aggregateWeather builds the aggregate (and panics on
\* a nil reading). A return or a panic ends the call's frame: its goroutines,
\* channels and locals are gone.
Collect(c) ==
    /\ pc[c] = "waiting"
    /\ AllWorkersDone(c)
    /\ results' = [results EXCEPT ![c] = <<>>]
    /\ errors' = [errors EXCEPT ![c] = <<>>]
    /\ errs' = [errs EXCEPT ![c] = errors[c]]
    /\ IF Len(results[c]) = 0
       THEN /\ ret' = [ret EXCEPT ![c] =
                          [val |-> NilPtr,
                           err |-> IF Len(errors[c]) > 0 THEN ErrAllFailed(errors[c])
                                   ELSE ErrNoData]]
            /\ pc' = [pc EXCEPT ![c] = "done"]
            /\ weatherData' = [weatherData EXCEPT ![c] = <<>>]
            /\ workers' = [workers EXCEPT ![c] = <<>>]
            /\ invoked' = [invoked EXCEPT ![c] = <<>>]
            /\ ctx' = [ctx EXCEPT ![c] = "live"]
            /\ UNCHANGED aggregated
       ELSE IF HasNil(results[c])
       THEN /\ pc' = [pc EXCEPT ![c] = "panicked"]
            /\ weatherData' = [weatherData EXCEPT ![c] = <<>>]
            /\ workers' = [workers EXCEPT ![c] = <<>>]
            /\ invoked' = [invoked EXCEPT ![c] = <<>>]
            /\ ctx' = [ctx EXCEPT ![c] = "live"]
            /\ UNCHANGED <<ret, aggregated>>
       ELSE /\ \E a \in aggregateWeather(results[c], req[c].city, req[c].country, now) :
                   aggregated' = [aggregated EXCEPT ![c] = a]
            /\ weatherData' = [weatherData EXCEPT ![c] = results[c]]
            /\ pc' = [pc EXCEPT ![c] = "aggregated"]
            /\ UNCHANGED <<ret, workers, invoked, ctx>>
    /\ UNCHANGED <<providers, cache, cacheMu, now, req, clr, lastCleared, nreq>>
    /\ UNCHANGED <<regVars, pureVars>>

\* saveToCache takes the write lock
SaveLock(c) ==
    /\ pc[c] = "aggregated"
    /\ LockFree
    /\ cacheMu' = [cacheMu EXCEPT !.writer = c]
    /\ pc' = [pc EXCEPT ![c] = "saving"]
    /\ UNCHANGED <<providers, cache, now, req, ctx, workers, results, errors,
                   weatherData, errs, aggregated, ret, invoked, clr, lastCleared, nreq>>
    /\ UNCHANGED <<regVars, pureVars>>

\* saveToCache stores the entry and unlocks; GetWeather returns the aggregate
SaveWrite(c) ==
    /\ pc[c] = "saving"
    /\ cache' = saveToCache(CacheKey(req[c].city, req[c].country), aggregated[c], now)
    /\ cacheMu' = [cacheMu EXCEPT !.writer = Nil]
    /\ ret' = [ret EXCEPT ![c] = [val |-> aggregated[c], err |-> Nil]]
    /\ pc' = [pc EXCEPT ![c] = "done"]
    /\ weatherData' = [weatherData EXCEPT ![c] = <<>>]
    /\ errs' = [errs EXCEPT ![c] = <<>>]
    /\ aggregated' = [aggregated EXCEPT ![c] = NilPtr]
    /\ workers' = [workers EXCEPT ![c] = <<>>]
    /\ invoked' = [invoked EXCEPT ![c] = <<>>]
    /\ ctx' = [ctx EXCEPT ![c] = "live"]
    /\ UNCHANGED <<providers, now, req, results, errors, clr, lastCleared, nreq>>
    /\ UNCHANGED <<regVars, pureVars>>

Next ==
    \/ \E p \in ProviderPool : Startup(p)
    \/ \E c \in Sequential, r \in Requests, s \in {"live", "done"} :
           CallGetWeather(c, r[1], r[2], s)
    \/ \E c \in Sequential : LookupCache(c)
    \/ \E c \in Sequential : Cancel(c)
    \/ \E c \in Sequential : \E i \in 1..Len(workers[c]) : WorkerSelect(c, i)
    \/ \E c \in Sequential : \E i \in 1..Len(workers[c]) :
           \E o \in ProviderGetWeather(providers[i], ctx[c] = "done") : WorkerReturn(c, i, o)
    \/ \E c \in Sequential : Collect(c)
    \/ \E c \in Sequential : SaveLock(c)
    \/ \E c \in Sequential : SaveWrite(c)
    \/ ClearLock
    \/ ClearWrite
    \/ Tick

Spec == Init /\ [][Next]_vars

(***************************************************************************)
(* The fan-out under the scheduler: every provider call returns a reading  *)
(* or an error, the clock plays no part, ClearCache contends for the lock. *)
(***************************************************************************)
\* the answers of a provider that carry a reading or an error
Answers(p, ctxDone) ==
    {o \in ProviderGetWeather(p, ctxDone) : o.weather # NilPtr \/ o.err # Nil}

\* a step of caller c's GetWeather call or of one of its workers that waits
\* for nothing: the lookup under the read lock, a worker's select, a provider
\* call returning, the drain after the barrier, the write under the lock
Progress(c) ==
    \/ LookupCache(c)
    \/ \E i \in 1..Len(workers[c]) : WorkerSelect(c, i)
    \/ \E i \in 1..Len(workers[c]) :
           \E o \in Answers(providers[i], ctx[c] = "done") : WorkerReturn(c, i, o)
    \/ Collect(c)
    \/ SaveWrite(c)

FanOutNext ==
    \/ \E p \in ProviderPool : Startup(p)
    \/ \E c \in Sequential, r \in Requests, s \in {"live", "done"} :
           CallGetWeather(c, r[1], r[2], s)
    \/ \E c \in Sequential : Cancel(c)
    \/ \E c \in Sequential : Progress(c)
    \/ \E c \in Sequential : SaveLock(c)
    \/ ClearLock
    \/ ClearWrite

\* the steps of Progress(c) but the drain after the barrier
Running(c) ==
    \/ LookupCache(c)
    \/ \E i \in 1..Len(workers[c]) : WorkerSelect(c, i)
    \/ \E i \in 1..Len(workers[c]) :
           \E o \in Answers(providers[i], ctx[c] = "done") : WorkerReturn(c, i, o)
    \/ SaveWrite(c)

\* WF_vars(Collect(c)) with ENABLED <<Collect(c)>>_vars written out: Collect
\* can be taken exactly when c is at the barrier and every worker has ended
CollectFair(c) ==
    \/ []<>(~(pc[c] = "waiting" /\ AllWorkersDone(c)))
    \/ []<><<Collect(c)>>_vars

\* the scheduling of the Go runtime: a goroutine that can run does run, every
\* provider call returns, a holder of the mutex releases it, and a goroutine
\* blocked in Lock() gets the mutex (sync.RWMutex does not starve a writer)
FairFanOut ==
    /\ Init /\ [][FanOutNext]_vars
    /\ \A c \in Sequential :
           WF_vars(Running(c)) /\ CollectFair(c) /\ SF_vars(SaveLock(c))
    /\ WF_vars(ClearWrite)

(***************************************************************************)
(* Concurrent callers: the HTTP handlers call GetWeather for one city at   *)
(* the same time while ClearCache is called; every provider call returns a *)
(* reading or an error.                                                    *)
(***************************************************************************)
ConcurrentNext ==
    \/ \E p \in ProviderPool : Startup(p)
    \/ \E c \in Callers : CallGetWeather(c, "Paris", "FR", "live")
    \/ \E c \in Callers : LookupCache(c)
    \/ \E c \in Callers : \E i \in 1..Len(workers[c]) : WorkerSelect(c, i)
    \/ \E c \in Callers : \E i \in 1..Len(workers[c]) :
           \E o \in Answers(providers[i], ctx[c] = "done") : WorkerReturn(c, i, o)
    \/ \E c \in Callers : Collect(c)
    \/ \E c \in Callers : SaveLock(c)
    \/ \E c \in Callers : SaveWrite(c)
    \/ ClearLock
    \/ ClearWrite
    \/ Tick

SpecConcurrent == Init /\ [][ConcurrentNext]_vars

(***************************************************************************)
(* Requests whose city holds a comma: the handler passes the city and the  *)
(* country of the query on as they are. One handler, one call after the    *)
(* other; every provider call returns a reading or an error.               *)
(***************************************************************************)
\* the (city, country) pairs of the queries
CommaRequests == {<<"Washington,DC", "US">>, <<"Washington", "DC,US">>, <<"Paris", "FR">>}

KeysNext ==
    \/ \E p \in ProviderPool : Startup(p)
    \/ \E c \in Sequential, r \in CommaRequests : CallGetWeather(c, r[1], r[2], "live")
    \/ \E c \in Sequential : Progress(c)
    \/ \E c \in Sequential : SaveLock(c)
    \/ ClearLock
    \/ ClearWrite

SpecKeys == Init /\ [][KeysNext]_vars

(***************************************************************************)
(* The registry on its own: AddProvider called with any provider object,   *)
(* in any order and more than once, the introspection methods, and calls   *)
(* of GetWeather that fill the cache (every provider answers with its      *)
(* reading). One goroutine makes all the calls, one after the other        *)
(* (a.providers has no lock).                                              *)
(***************************************************************************)
\* the goroutine is between two calls
Idle == \A c \in Sequential : pc[c] \in {"idle", "done", "panicked"}

Register(p) ==
    /\ Idle
    /\ Len(added) < MaxAdds
    /\ AddProvider(p)

RegistryNext ==
    \/ \E p \in ProviderPool : Register(p)
    \/ Idle /\ GetProviderCount
    \/ Idle /\ GetProvidersInfo
    \/ \E c \in Sequential, r \in Requests : CallGetWeather(c, r[1], r[2], "live")
    \/ \E c \in Sequential : LookupCache(c)
    \/ \E c \in Sequential : \E i \in 1..Len(workers[c]) : WorkerSelect(c, i)
    \/ \E c \in Sequential : \E i \in 1..Len(workers[c]) :
           WorkerReturn(c, i, [weather |-> Reading(providers[i]), err |-> Nil])
    \/ \E c \in Sequential : Collect(c)
    \/ \E c \in Sequential : SaveLock(c)
    \/ \E c \in Sequential : SaveWrite(c)

SpecRegistry == Init /\ [][RegistryNext]_vars

(***************************************************************************)
(* The reducer functions on their own: a slice of up to MaxLen values is   *)
(* handed to aggregateValues or to mostFrequent.                           *)
(***************************************************************************)
\* the float64 values of the slices (each fits the significand)
Floats == {-2, 0, 5, 6}
\* the strings of the slices
Strings == {"", "rain", "sun"}

\* the sequences over S of length at most n
SeqsUpTo(S, n) == UNION {[1..k -> S] : k \in 0..n}

ReducerInit ==
    /\ InitAggregator
    /\ \/ \E v \in SeqsUpTo(Floats, MaxLen) : arg = [fn |-> "aggregateValues", values |-> v]
       \/ \E v \in SeqsUpTo(Strings, MaxLen) : arg = [fn |-> "mostFrequent", values |-> v]
    /\ out = NoCall

CallAggregateValues ==
    /\ arg.fn = "aggregateValues"
    /\ out = NoCall
    /\ out' = [fn |-> "aggregateValues", val |-> aggregateValues(arg.values)]
    /\ UNCHANGED <<providers, cache, cacheMu, now, callVars, clr, lastCleared, nreq,
                   regVars, arg>>

CallMostFrequent ==
    /\ arg.fn = "mostFrequent"
    /\ out = NoCall
    /\ \E r \in mostFrequent(arg.values) : out' = [fn |-> "mostFrequent", val |-> r]
    /\ UNCHANGED <<providers, cache, cacheMu, now, callVars, clr, lastCleared, nreq,
                   regVars, arg>>

ReducerNext == CallAggregateValues \/ CallMostFrequent

SpecReducer == ReducerInit /\ [][ReducerNext]_vars

(***************************************************************************)
(* Properties.                                                             *)
(***************************************************************************)
\* the cache key of caller c's call
KeyOf(c) == CacheKey(req[c].city, req[c].country)

\* the bag of the elements of a sequence
SeqToBag(s) ==
    [x \in {s[i] : i \in 1..Len(s)} |-> Cardinality({i \in 1..Len(s) : s[i] = x})]

\* the cache holds an entry for c's key no older than the TTL
FreshEntry(c) ==
    /\ KeyOf(c) \in DOMAIN cache
    /\ now - cache[KeyOf(c)].timestamp <= cacheTTL

\* c's lookup returns in this step
LookupReturns(c) == pc[c] = "rlocked" /\ pc'[c] # "rlocked"

\* C1: a GetWeather call that finds a cache entry for its key no older than
\* the TTL returns exactly the stored aggregate and no error, launches no
\* worker and invokes no provider, and leaves the cache as it was.
C1_CacheHit ==
    [][\A c \in Callers :
          (LookupReturns(c) /\ FreshEntry(c)) =>
              /\ pc'[c] = "done"
              /\ ret'[c] = [val |-> cache[KeyOf(c)].data, err |-> Nil]
              /\ workers'[c] = <<>>
              /\ invoked'[c] = <<>>
              /\ cache' = cache]_vars

\* a second call served from the cache, a minute after the entry was stored:
\* same aggregate, same LastUpdated
C1_Witness ==
    /\ nreq = 2
    /\ pc["h1"] = "done"
    /\ KeyOf("h1") \in DOMAIN cache
    /\ ret["h1"] = [val |-> cache[KeyOf("h1")].data, err |-> Nil]
    /\ now - cache[KeyOf("h1")].timestamp = cacheTTL
    /\ ret["h1"].val.LastUpdated < now

\* the workers of c whose provider returned a reading and no error
Succeeded(c) ==
    {i \in 1..Len(workers[c]) :
        /\ workers[c][i].st = "done"
        /\ ~workers[c][i].skipped
        /\ workers[c][i].err = Nil
        /\ workers[c][i].weather # NilPtr}

\* the workers of c that failed: the provider returned an error, or the
\* context was done at the select
Failed(c) ==
    {i \in 1..Len(workers[c]) :
        /\ workers[c][i].st = "done"
        /\ workers[c][i].skipped \/ workers[c][i].err # Nil}

\* the barrier of c opens in this step
BarrierOpens(c) == pc[c] = "waiting" /\ AllWorkersDone(c) /\ pc'[c] # "waiting"

\* the bag of the values f of the readings of the workers in S
ReadingBag(c, S, f(_)) ==
    [x \in {f(workers[c][i].weather) : i \in S} |->
        Cardinality({i \in S : f(workers[c][i].weather) = x})]

TemperatureOf(w) == w.Temperature
FeelsLikeOf(w) == w.FeelsLike
HumidityOf(w) == w.Humidity
PressureOf(w) == w.Pressure
WindSpeedOf(w) == w.WindSpeed
ProviderOf(w) == w.Provider

\* aggregate a is built from exactly the readings of the workers in S
BuiltFrom(a, c, S) ==
    /\ SeqToBag(a.Providers) = ReadingBag(c, S, ProviderOf)
    /\ Len(a.Providers) = Cardinality(S)
    /\ SeqToBag(a.Temperature.Values) = ReadingBag(c, S, TemperatureOf)
    /\ SeqToBag(a.FeelsLike.Values) = ReadingBag(c, S, FeelsLikeOf)
    /\ SeqToBag(a.Humidity.Values) = ReadingBag(c, S, HumidityOf)
    /\ SeqToBag(a.Pressure.Values) = ReadingBag(c, S, PressureOf)
    /\ SeqToBag(a.WindSpeed.Values) = ReadingBag(c, S, WindSpeedOf)
    /\ \A st \in {a.Temperature, a.FeelsLike, a.Humidity, a.Pressure, a.WindSpeed} :
           /\ Len(st.Values) = Cardinality(S)
           /\ Cardinality(S) = 1 => (st.Average = st.Values[1] /\ st.Min = st.Values[1]
                                     /\ st.Max = st.Values[1])

\* C2: on a cache miss, when at least one provider call succeeds GetWeather
\* goes on to return success, and the aggregate is built from exactly the
\* successful readings (Providers and every stat's Values; one success gives
\* Average = Min = Max = its value).
C2_PartialSuccess ==
    [][\A c \in Callers :
          (BarrierOpens(c) /\ Succeeded(c) # {}) =>
              /\ pc'[c] = "aggregated"
              /\ BuiltFrom(aggregated'[c], c, Succeeded(c))]_vars

\* the message worker i of c sends when it fails
FailureMessage(c, i) ==
    IF workers[c][i].skipped THEN CtxErr
    ELSE Name(providers[i]) \o ": " \o workers[c][i].err

\* C3: on a cache miss with N >= 1 providers, when every provider call fails
\* (by an error or by cancellation) GetWeather returns no aggregate and the
\* all-providers-failed error over exactly N messages, one per provider.
C3_TotalFailure ==
    [][\A c \in Callers :
          (BarrierOpens(c) /\ Len(workers[c]) >= 1
              /\ Failed(c) = 1..Len(workers[c])) =>
              /\ pc'[c] = "done"
              /\ ret'[c] = [val |-> NilPtr, err |-> ErrAllFailed(errs'[c])]
              /\ Len(errs'[c]) = Len(providers)
              /\ SeqToBag(errs'[c]) =
                     SeqToBag([i \in 1..Len(workers[c]) |-> FailureMessage(c, i)])
              /\ cache' = cache]_vars

\* two providers, both failed, one of them by cancellation
C3_Witness ==
    /\ Len(providers) = 2
    /\ pc["h1"] = "done"
    /\ Len(errs["h1"]) = 2
    /\ ret["h1"] = [val |-> NilPtr, err |-> ErrAllFailed(errs["h1"])]
    /\ \E i, j \in 1..2 : errs["h1"][i] = CtxErr /\ errs["h1"][j] # CtxErr

\* C4: with no provider registered the cache is empty and every GetWeather
\* call returns the no-providers error at once: no worker is launched, no
\* provider invoked, the cache untouched.
C4_NoProviders ==
    /\ [](Len(providers) = 0 => DOMAIN cache = {})
    /\ [][\A c \in Callers :
            (LookupReturns(c) /\ Len(providers) = 0) =>
                /\ pc'[c] = "done"
                /\ ret'[c] = [val |-> NilPtr, err |-> ErrNoProviders]
                /\ workers'[c] = <<>>
                /\ invoked'[c] = <<>>
                /\ cache' = cache]_vars

\* a second call without providers, under a cancelled context, has failed
C4_Witness ==
    /\ Len(providers) = 0
    /\ nreq = 2
    /\ pc["h1"] = "done"
    /\ ret["h1"] = [val |-> NilPtr, err |-> ErrNoProviders]

\* the arguments a faithful dispatch hands to provider i for caller c
PassedThrough(c, i) ==
    [provider |-> providers[i], ctx |-> c, city |-> req[c].city, country |-> req[c].country]

\* C5 as claimed: on a cache miss every registered provider's GetWeather is
\* invoked exactly once with the caller's context, city and country, whatever
\* the state of the context, a context already done at dispatch included.
C5_InvokedExactlyOnce ==
    \A c \in Callers :
        (pc[c] = "waiting" /\ AllWorkersDone(c)) =>
            /\ Len(workers[c]) = Len(providers)
            /\ \A i \in 1..Len(workers[c]) : invoked[c][i] = <<PassedThrough(c, i)>>

\* C5 as amended: on a cache miss one worker runs per registered provider; a
\* worker that finds the context not done at its select invokes its provider
\* exactly once, with the caller's context, city and country unchanged; a
\* worker that finds the context done invokes nothing.
C5_Dispatch ==
    \A c \in Callers :
        pc[c] \in {"waiting", "aggregated", "saving"} =>
            /\ Len(providers) >= 1
            /\ Len(workers[c]) = Len(providers)
            /\ \A i \in 1..Len(workers[c]) :
                   /\ invoked[c][i] =
                          IF workers[c][i].st = "ready" \/ workers[c][i].skipped
                          THEN <<>> ELSE <<PassedThrough(c, i)>>
                   /\ workers[c][i].skipped => ctx[c] = "done"

\* two workers have ended: one called its provider, the other found the
\* context done and called nothing
C5_Witness ==
    /\ pc["h1"] = "waiting"
    /\ AllWorkersDone("h1")
    /\ Len(workers["h1"]) = 2
    /\ \E i, j \in 1..2 :
           /\ workers["h1"][i].skipped /\ invoked["h1"][i] = <<>>
           /\ ~workers["h1"][j].skipped /\ invoked["h1"][j] = <<PassedThrough("h1", j)>>

\* the causes a failure message can wrap
Causes == {ErrCityNotFound, ErrHTTPRequest, CtxErr}

\* the elements of a sequence
Range(s) == {s[i] : i \in 1..Len(s)}

\* C6: every failure collected during a fan-out, a provider error or a
\* cancellation, is in the errors channel as a message tagged with the name of
\* the provider whose call failed, and every sibling that got a reading has
\* contributed it.
C6_TaggedAndIsolated ==
    \A c \in Callers :
        pc[c] = "waiting" =>
            /\ \A i \in Failed(c) :
                   \E e \in Causes : Name(providers[i]) \o ": " \o e \in Range(errors[c])
            /\ \A m \in Range(errors[c]) :
                   \E i \in Failed(c), e \in Causes : m = Name(providers[i]) \o ": " \o e
            /\ \A i \in Succeeded(c) : workers[c][i].weather \in Range(results[c])

\* c's saveToCache stores and GetWeather returns in this step
SaveReturns(c) == pc[c] = "saving" /\ pc'[c] = "done"

\* C7: when GetWeather succeeds on a cache miss for key k, the cache maps k to
\* exactly the returned aggregate with the current time as creation timestamp,
\* the entries of all other keys are unchanged, and a lookup of k at any time
\* within the TTL finds that aggregate.
C7_CacheWrite ==
    [][\A c \in Callers :
          SaveReturns(c) =>
              /\ ret'[c] = [val |-> aggregated[c], err |-> Nil]
              /\ DOMAIN cache' = DOMAIN cache \cup {KeyOf(c)}
              /\ cache'[KeyOf(c)] = [data |-> aggregated[c], timestamp |-> now]
              /\ cache'[KeyOf(c)].timestamp >= aggregated[c].LastUpdated
              /\ \A k \in DOMAIN cache \ {KeyOf(c)} : cache'[k] = cache[k]
              /\ \A t \in now..(now + cacheTTL) :
                     getFromCache(KeyOf(c), t)' = [data |-> aggregated[c], found |-> TRUE]
        ]_vars

\* a call has just stored its aggregate next to the entry of another key
C7_Witness ==
    /\ pc["h1"] = "done"
    /\ Cardinality(DOMAIN cache) = 2
    /\ KeyOf("h1") \in DOMAIN cache
    /\ cache[KeyOf("h1")] = [data |-> ret["h1"].val, timestamp |-> now]
    /\ ret["h1"].err = Nil

\* C8: a lookup serves an entry exactly when its age is at most the TTL: an
\* entry aged up to the TTL is returned, an entry older than the TTL is not
\* found, and the call then fans out to the registered providers.
C8_ExpiryBoundary ==
    [][\A c \in Callers :
          (LookupReturns(c) /\ KeyOf(c) \in DOMAIN cache) =>
              LET age == now - cache[KeyOf(c)].timestamp
              IN  /\ age <= cacheTTL =>
                         (pc'[c] = "done" /\ ret'[c].val = cache[KeyOf(c)].data)
                  /\ age > cacheTTL =>
                         /\ ret'[c].val = NilPtr
                         /\ Len(providers) >= 1 =>
                                (pc'[c] = "waiting" /\ Len(workers'[c]) = Len(providers))
        ]_vars

\* a call found the entry of its key older than the TTL and has fanned out
C8_Witness ==
    /\ pc["h1"] = "waiting"
    /\ KeyOf("h1") \in DOMAIN cache
    /\ now - cache[KeyOf("h1")].timestamp > cacheTTL
    /\ Len(workers["h1"]) >= 1

\* C9: ClearCache discards every entry in one step under the write lock: after
\* it a lookup of any key stored before finds nothing at any time, no step
\* removes only some of the stored keys, and no reader is inside the critical
\* section together with a writer.
C9_ClearCache ==
    /\ [](\A c \in Callers :
             pc[c] = "rlocked" => (cacheMu.writer = Nil /\ clr # "locked"))
    /\ [][/\ (clr = "locked" /\ clr' = "idle") =>
                 /\ DOMAIN cache' = {}
                 /\ \A k \in DOMAIN cache, t \in 0..MaxTime : ~getFromCache(k, t)'.found
          /\ (DOMAIN cache \ DOMAIN cache' # {}) => DOMAIN cache' = {}
         ]_vars

\* ClearCache has just discarded the fresh entries of two keys
C9_Witness ==
    /\ clr = "idle"
    /\ Cardinality(lastCleared) = 2
    /\ DOMAIN cache = {}
    /\ pc["h1"] = "done"
    /\ ret["h1"].err = Nil
    /\ ret["h1"].val.LastUpdated = now

\* the workers of c whose provider returned no error and a nil reading
ReturnedNothing(c) ==
    {i \in 1..Len(workers[c]) :
        /\ workers[c][i].st = "done"
        /\ ~workers[c][i].skipped
        /\ workers[c][i].err = Nil
        /\ workers[c][i].weather = NilPtr}

\* C10: when every provider call of a fan-out returns no error and a nil
\* reading, GetWeather returns an error and no aggregate, and the cache is
\* not written.
C10_EmptyResultSet ==
    [][\A c \in Callers :
          (BarrierOpens(c) /\ Len(workers[c]) >= 1
              /\ ReturnedNothing(c) = 1..Len(workers[c])) =>
              /\ pc'[c] = "done"
              /\ ret'[c].val = NilPtr
              /\ ret'[c].err # Nil
              /\ cache' = cache]_vars

\* the providers handed to AddProvider that reported themselves available,
\* in the order of the calls
Available(p) == apiKey(p) # ""
Registered == SelectSeq(added, Available)

\* C11: after any sequence of AddProvider calls the registered list holds
\* exactly the providers that were available when added, in the order of the
\* calls; GetProviderCount returns its length and GetProvidersInfo the names
\* in that order, and neither changes the list or the cache.
C11_Registry ==
    /\ [](providers = Registered)
    /\ [][(count' # count /\ count' # NoCall) =>
             /\ count' = [fn |-> "GetProviderCount", val |-> Len(Registered)]
             /\ providers' = providers /\ added' = added /\ cache' = cache]_vars
    /\ [][(info' # info /\ info' # NoCall) =>
             /\ info' = [fn |-> "GetProvidersInfo",
                         val |-> [i \in 1..Len(Registered) |-> Name(Registered[i])]]
             /\ providers' = providers /\ added' = added /\ cache' = cache]_vars

\* three calls, the keyless adapter skipped and the other two registered in
\* the reverse of main's order; both introspection calls made over a filled cache
C11_Witness ==
    /\ added = <<"other", "owm_nokey", "owm">>
    /\ providers = <<"other", "owm">>
    /\ count = [fn |-> "GetProviderCount", val |-> 2]
    /\ info = [fn |-> "GetProvidersInfo", val |-> <<"Other", "OpenWeatherMap">>]
    /\ DOMAIN cache # {}

\* C12: aggregateValues on a non-empty slice returns the exact minimum as Min,
\* the exact maximum as Max and the slice itself as Values, and its Average
\* (the float64 sum divided by the count) lies between them:
\* Min <= Average <= Max.
C12_MinAverageMax ==
    (out.fn = "aggregateValues" /\ Len(arg.values) > 0) =>
        LET v == arg.values
            r == out.val
        IN  /\ r.Values = v
            /\ Len(r.Values) = Len(v)
            /\ \E i \in 1..Len(v) : r.Min = v[i]
            /\ \A i \in 1..Len(v) : r.Min <= v[i]
            /\ \E i \in 1..Len(v) : r.Max = v[i]
            /\ \A i \in 1..Len(v) : r.Max >= v[i]
            /\ r.Min <= r.Average
            /\ r.Average <= r.Max

\* C13: aggregateValues on the empty slice returns the zero value: Average,
\* Min and Max are 0 and there are no Values.
C13_EmptyIsZero ==
    (out.fn = "aggregateValues" /\ Len(arg.values) = 0) =>
        /\ out.val.Average = 0
        /\ out.val.Min = 0
        /\ out.val.Max = 0
        /\ out.val.Values = <<>>

\* aggregateValues has returned for the empty slice
C13_Witness ==
    /\ arg.fn = "aggregateValues"
    /\ Len(arg.values) = 0
    /\ out.fn = "aggregateValues"

\* the number of occurrences of x in the sequence s
Occurrences(s, x) == Cardinality({i \in 1..Len(s) : s[i] = x})

\* C14: mostFrequent on a non-empty slice returns one of its elements, and no
\* element occurs more often than the one returned; on the empty slice it
\* returns the empty string.
C14_MostFrequent ==
    out.fn = "mostFrequent" =>
        IF Len(arg.values) = 0 THEN out.val = ""
        ELSE /\ \E i \in 1..Len(arg.values) : arg.values[i] = out.val
             /\ \A i \in 1..Len(arg.values) :
                    Occurrences(arg.values, arg.values[i]) <= Occurrences(arg.values, out.val)

\* mostFrequent has returned "rain" for rain, rain, sun
C14_Witness ==
    /\ arg.fn = "mostFrequent"
    /\ arg.values = <<"rain", "rain", "sun">>
    /\ out.fn = "mostFrequent"
    /\ out.val = "rain"

\* the workers of c that have not ended
Unfinished(c) == {i \in 1..Len(workers[c]) : workers[c][i].st # "done"}

\* c's call drains a channel, builds its result lists, leaves the barrier or
\* returns in this step
CollectsOrReturns(c) ==
    \/ Len(results'[c]) < Len(results[c])
    \/ Len(errors'[c]) < Len(errors[c])
    \/ weatherData'[c] # weatherData[c] /\ weatherData'[c] # <<>>
    \/ pc[c] = "waiting" /\ pc'[c] # "waiting"

\* C15: collection and aggregation begin only after every launched worker has
\* ended, one worker having been launched per provider, and when GetWeather
\* returns or goes on to aggregate no worker of the call is still running.
C15_JoinBarrier ==
    /\ [](\A c \in Callers :
             pc[c] \in {"aggregated", "saving"} =>
                 (Len(workers[c]) = Len(providers) /\ Unfinished(c) = {}))
    /\ [][\A c \in Callers :
             (pc[c] = "waiting" /\ CollectsOrReturns(c)) =>
                 (Len(workers[c]) = Len(providers) /\ Unfinished(c) = {})]_vars

\* past the barrier of a fan-out of two whose context was cancelled on the
\* way: one worker failed, the other delivered, none is running
C15_Witness ==
    /\ pc["h1"] = "aggregated"
    /\ ctx["h1"] = "done"
    /\ Len(workers["h1"]) = 2
    /\ Unfinished("h1") = {}
    /\ Failed("h1") # {}

\* c's GetWeather call has been entered and has not ended
InFlight(c) == pc[c] \in {"rlocked", "waiting", "aggregated", "saving"}

\* C16: when every provider call returns, with a reading or an error, every
\* GetWeather call returns; each worker sends one message at most, so the
\* channels (capacity N each) never hold more than N messages and no send
\* blocks.
C16_Termination ==
    /\ [](\A c \in Callers :
             /\ Len(results[c]) <= Len(providers)
             /\ Len(errors[c]) <= Len(providers)
             /\ pc[c] = "waiting" =>
                    Len(results[c]) + Len(errors[c]) =
                        Cardinality({i \in 1..Len(workers[c]) : workers[c][i].st = "done"}))
    /\ \A c \in Callers : InFlight(c) ~> pc[c] = "done"

\* a fan-out over two providers has returned the aggregate of both readings
C16_Witness ==
    /\ pc["h1"] = "done"
    /\ ret["h1"].err = Nil
    /\ ret["h1"].val # NilPtr
    /\ Len(ret["h1"].val.Providers) = 2
    /\ ret["h1"].val.LastUpdated = now

\* the goroutines inside the cache's critical section as writers
WritersInside ==
    {c \in Callers : pc[c] = "saving"} \cup (IF clr = "locked" THEN {"clear"} ELSE {})

\* the callers inside the cache's critical section as readers
ReadersInside == {c \in Callers : pc[c] = "rlocked"}

\* C17: with GetWeather and ClearCache called concurrently, at most one writer
\* (saveToCache or ClearCache) is inside the cache's critical section and
\* never together with a reader; an entry only ever appears or changes as the
\* whole pair (aggregate, timestamp) of one saveToCache, and a reader that
\* finds its key returns the data of the pair stored then.
C17_LockDiscipline ==
    /\ [](Cardinality(WritersInside) <= 1)
    /\ [](WritersInside # {} => ReadersInside = {})
    /\ [](\A k \in DOMAIN cache :
             /\ cache[k].data # NilPtr
             /\ cache[k].data.LastUpdated <= cache[k].timestamp)
    /\ [][\A k \in DOMAIN cache' :
             (k \notin DOMAIN cache \/ cache'[k] # cache[k]) =>
                 \E c \in Callers :
                     /\ pc[c] = "saving" /\ pc'[c] = "done" /\ KeyOf(c) = k
                     /\ cache'[k] = [data |-> aggregated[c], timestamp |-> now]]_vars
    /\ [][\A c \in Callers :
             (LookupReturns(c) /\ pc'[c] = "done" /\ ret'[c].err = Nil) =>
                 /\ KeyOf(c) \in DOMAIN cache
                 /\ ret'[c].val = cache[KeyOf(c)].data]_vars

\* two readers are inside the critical section at the same time
C17_Witness ==
    /\ Len(providers) = 2
    /\ ReadersInside = {"h1", "h2"}
    /\ cacheMu.readers = {"h1", "h2"}
    /\ WritersInside = {}

\* C18: a lookup never modifies the cache: a stale entry is reported as not
\* found and stays stored; an entry is removed or replaced only by ClearCache
\* or by the cache write of a successful aggregation for its key, never by
\* the passing of time.
C18_LazyExpiry ==
    /\ [][\A c \in Callers :
             LookupReturns(c) =>
                 /\ cache' = cache
                 /\ (KeyOf(c) \in DOMAIN cache
                        /\ now - cache[KeyOf(c)].timestamp > cacheTTL) =>
                            (ret'[c].val = NilPtr /\ KeyOf(c) \in DOMAIN cache')]_vars
    /\ [][now' # now => cache' = cache]_vars
    /\ [][\A k \in DOMAIN cache :
             (k \notin DOMAIN cache' \/ cache'[k] # cache[k]) =>
                 \/ clr = "locked" /\ clr' = "idle"
                 \/ \E c \in Callers :
                        SaveReturns(c) /\ KeyOf(c) = k /\ ret'[c].err = Nil]_vars

\* the entry of the call's key, stored two minutes ago, was not served: the
\* fan-out has run to the barrier and the entry is still stored
C18_Witness ==
    /\ pc["h1"] = "waiting"
    /\ AllWorkersDone("h1")
    /\ KeyOf("h1") \in DOMAIN cache
    /\ cache[KeyOf("h1")].timestamp = 0
    /\ now = 2
    /\ cacheTTL < 2

\* C19: a GetWeather call that returns an error (no providers, or every
\* provider failed) returns no aggregate and leaves the cache exactly as it
\* was: nothing is added, replaced or removed.
C19_ErrorLeavesCache ==
    [][\A c \in Callers :
          (InFlight(c) /\ pc'[c] = "done" /\ ret'[c].err # Nil) =>
              /\ ret'[c].val = NilPtr
              /\ cache' = cache]_vars

\* every provider failed in a call that found the entry of its key stale: the
\* call has returned the error and the stale entry is still stored
C19_Witness ==
    /\ pc["h1"] = "done"
    /\ Len(errs["h1"]) >= 1
    /\ ret["h1"] = [val |-> NilPtr, err |-> ErrAllFailed(errs["h1"])]
    /\ KeyOf("h1") \in DOMAIN cache
    /\ now - cache[KeyOf("h1")].timestamp > cacheTTL

\* the readings and nils the workers of c sent, as a bag
SentReadings(c) ==
    LET S == Succeeded(c) \cup ReturnedNothing(c)
    IN  [x \in {workers[c][i].weather : i \in S} |->
            Cardinality({i \in S : workers[c][i].weather = x})]

\* C20: at the barrier of a fan-out over N providers every provider has
\* contributed exactly one outcome, a reading or an error message: readings
\* plus messages are N; so the generic could-not-get-data error (no reading
\* and no message) is never returned.
C20_OneOutcomeEach ==
    /\ [](\A c \in Callers :
             (pc[c] = "waiting" /\ Unfinished(c) = {}) =>
                 /\ Len(results[c]) + Len(errors[c]) = Len(providers)
                 /\ Len(providers) >= 1
                 /\ Len(errors[c]) = Cardinality(Failed(c))
                 /\ Len(results[c]) = Cardinality(Succeeded(c) \cup ReturnedNothing(c))
                 /\ Failed(c) \cap (Succeeded(c) \cup ReturnedNothing(c)) = {}
                 /\ SeqToBag(results[c]) = SentReadings(c))
    /\ [](\A c \in Callers : ret[c].err # ErrNoData)

\* two providers at the barrier: one reading and one error message
C20_Witness ==
    /\ pc["h1"] = "waiting"
    /\ Unfinished("h1") = {}
    /\ Len(providers) = 2
    /\ Len(results["h1"]) = 1
    /\ Len(errors["h1"]) = 1

\* C21: every aggregate GetWeather(city, country) returns, computed or served
\* from the cache, was aggregated for that pair: its Location is
\* city + ", " + country; and an entry is stored under the key of the pair it
\* was aggregated for only, so calls for different pairs share no entry.
C21_OwnLocation ==
    \A c \in Callers :
        (pc[c] = "done" /\ ret[c].err = Nil /\ ret[c].val # NilPtr) =>
            ret[c].val.Location = req[c].city \o ", " \o req[c].country

\* C22: when calls for one key run together and all miss the cache, the
\* aggregate stored under the key only moves forward in time: a cache write
\* that replaces an entry stores an aggregate whose LastUpdated is not earlier
\* than the LastUpdated of the aggregate it replaces.
C22_StoredMovesForward ==
    [][\A k \in DOMAIN cache \cap DOMAIN cache' :
           cache'[k].data.LastUpdated >= cache[k].data.LastUpdated]_vars

====
